---- MODULE Spec2Model ----
(***************************************************************************)
(* A model of rabbithole-rs: the RSQL filter evaluator                     *)
(* (rabbithole/src/query/filter.rs), the entity code generated by the      *)
(* EntityDecorator derive macro (rabbithole-derive/src/lib.rs) and the     *)
(* sort / cursor-page engine exercised by rabbithole/tests/query_test.rs,  *)
(* the example HumanService and the actix endpoint handlers.               *)
(*                                                                         *)
(* The specifications share the variables:                                 *)
(*   Spec        one call of RsqlFilterData::filter                        *)
(*   SpecEntity  calls of the generated included() / relationships()       *)
(*   SpecPage    one sort + cursor page of a collection                    *)
(*   SpecNew     one call of RsqlFilterData::new                           *)
(*   SpecHuman   operations of the example HumanService                    *)
(*               (rabbithole-endpoint-actix/tests/service/human.rs)        *)
(*   SpecEndpoint requests to the actix endpoint handlers                  *)
(*               (rabbithole-endpoint-actix/src/lib.rs)                    *)
(***************************************************************************)
EXTENDS Integers, Sequences, FiniteSets, TLC

VARIABLES
    entities,   \* filter: the input collection, Vec<E>
    filt,       \* filter: RsqlFilterData.0, key -> Expr
    order,      \* filter: the order in which the HashMap yielded its keys
    pc,         \* filter: "ready" before the call, "done" after it
    out,        \* filter: the RbhResult<Vec<E>> the call returned
    human,      \* entity: the decorated struct included() / relationships() run on
    includeQuery, \* entity: Option<IncludeQuery>, <<>> or <<set of names>>
    incOut,     \* entity: what included() returned
    relOut,     \* entity: what relationships() returned
    doc,        \* entity: the included set of the document under assembly
    coll,       \* page: the collection a document is assembled from
    sortQuery,  \* page: Query.sort, the (attribute, order) keys
    pageQuery,  \* page: Query.page, a CursorBasedData
    ppc,        \* page: "ready" before the assembly, "done" after it
    pageOut,    \* page: the ids of the document's primary data
    params,     \* new: the filter parameters, key -> raw expression
    newOrder,   \* new: the order in which the HashMap yielded its entries
    npc,        \* new: "ready" before the call, "done" after it
    newOut,     \* new: the RbhResult<Option<RsqlFilterData>> the call returned
    hstore,     \* service: HumanService.0, key -> Human
    hres,       \* service: what the last operation of the service returned
    resp        \* endpoint: the response of the last request

filterVars == <<entities, filt, order, pc, out>>
entityVars == <<human, includeQuery, incOut, relOut, doc>>
pageVars == <<coll, sortQuery, pageQuery, ppc, pageOut>>
newVars == <<params, newOrder, npc, newOut>>
serviceVars == <<hstore, hres, resp>>
vars == <<filterVars, entityVars, pageVars, newVars, serviceVars>>

(***************************************************************************)
(* Bounds                                                                  *)
(***************************************************************************)
MaxColl == 3    \* entities in a filtered collection
MaxArgs == 2    \* arguments of one constraint
MaxMany == 2    \* items of a to-many relationship field
MaxPage == 3    \* entities in a sorted and paged collection
MaxLimit == 2   \* limit of a cursor page
MaxParams == 2  \* entries of a filter parameter map
MaxDogs == 2    \* dogs of one stored human

(***************************************************************************)
(* Results: RbhResult<T> is Ok(val) or Err(err).  val of an Err is a       *)
(* filler of the right type, never read.                                   *)
(***************************************************************************)
NoErr == [kind |-> "none", what |-> "", n |-> 0]

FieldNotExist(selector) == [kind |-> "FieldNotExist", what |-> selector, n |-> 0]

UnsupportedRsqlComparison(symbols, n) ==
    [kind |-> "UnsupportedRsqlComparison", what |-> symbols, n |-> n]

RsqlFilterOnRelatedNotImplemented ==
    [kind |-> "RsqlFilterOnRelatedNotImplemented", what |-> "", n |-> 0]

FieldTypeMismatch(selector) == [kind |-> "FieldTypeMismatch", what |-> selector, n |-> 0]

OkB(b) == [ok |-> TRUE, val |-> b, err |-> NoErr]
ErrB(e) == [ok |-> FALSE, val |-> FALSE, err |-> e]
OkO(o) == [ok |-> TRUE, val |-> o, err |-> NoErr]
ErrO(e) == [ok |-> FALSE, val |-> "Equal", err |-> e]
OkV(v) == [ok |-> TRUE, val |-> v, err |-> NoErr]
ErrV(e) == [ok |-> FALSE, val |-> <<>>, err |-> e]
OkS(v) == [ok |-> TRUE, val |-> v, err |-> NoErr]
ErrS(e) == [ok |-> FALSE, val |-> {}, err |-> e]
\* the errors and results of RsqlFilterData::new; keys are sequences of characters
NoNewErr == [kind |-> "none", what |-> <<>>, raw |-> ""]

RelationshipPathNotSupported(k) ==
    [kind |-> "RelationshipPathNotSupported", what |-> k, raw |-> ""]

UnmatchedFilterItem(k, v) == [kind |-> "UnmatchedFilterItem", what |-> k, raw |-> v]

OkN(v) == [ok |-> TRUE, val |-> v, err |-> NoNewErr]
ErrN(e) == [ok |-> FALSE, val |-> <<>>, err |-> e]
NoCallN == ErrN(NoNewErr)

NoCall == ErrV(NoErr)
NoCallS == ErrS(NoErr)

Range(s) == {s[i] : i \in 1..Len(s)}

(***************************************************************************)
(* Strings are sequences of characters; Alphabet lists the characters in   *)
(* their byte order, so that str::cmp is the lexical order below and the   *)
(* value of a digit is its position after "0".                             *)
(***************************************************************************)
Alphabet == <<"*", "0", "1", "2", "3", "4">>

CharOrd(c) == CHOOSE i \in 1..Len(Alphabet) : Alphabet[i] = c

IsDigit(c) == c \in {"0", "1", "2", "3", "4"}

DigitVal(c) == CharOrd(c) - CharOrd("0")

RECURSIVE StrCmp(_, _)
StrCmp(a, b) ==
    IF a = <<>> /\ b = <<>> THEN "Equal"
    ELSE IF a = <<>> THEN "Less"
    ELSE IF b = <<>> THEN "Greater"
    ELSE IF CharOrd(Head(a)) < CharOrd(Head(b)) THEN "Less"
    ELSE IF CharOrd(Head(a)) > CharOrd(Head(b)) THEN "Greater"
    ELSE StrCmp(Tail(a), Tail(b))

IsNumeral(s) == s # <<>> /\ \A i \in 1..Len(s) : IsDigit(s[i])

RECURSIVE ParseNum(_)
ParseNum(s) ==
    IF s = <<>> THEN 0
    ELSE 10 * ParseNum(SubSeq(s, 1, Len(s) - 1)) + DigitVal(s[Len(s)])

IntCmp(a, b) == IF a < b THEN "Less" ELSE IF a > b THEN "Greater" ELSE "Equal"

\* glob match of a string against a pattern in which "*" stands for any run
RECURSIVE GlobMatch(_, _)
GlobMatch(p, s) ==
    IF p = <<>> THEN s = <<>>
    ELSE IF Head(p) = "*"
         THEN GlobMatch(Tail(p), s) \/ (s # <<>> /\ GlobMatch(p, Tail(s)))
         ELSE s # <<>> /\ Head(s) = Head(p) /\ GlobMatch(Tail(p), Tail(s))

(***************************************************************************)
(* The entities of the filter tests: Dog { id, name: String, age }.        *)
(***************************************************************************)
Dog(id, name, age) == [id |-> id, name |-> name, age |-> age]

DOGS == << Dog("a", <<"1", "2", "3">>, 3),
           Dog("b", <<"1", "2", "4">>, 2),
           Dog("c", <<"3", "2", "1">>, 1) >>

Ty == "dogs"

StringField(s) == [ty |-> "String", s |-> s, n |-> 0]
NumberField(n) == [ty |-> "Number", s |-> <<>>, n |-> n]

\* SingleEntity::attributes: one entry per plain field of the struct
Attributes(e) == [name |-> StringField(e.name), age |-> NumberField(e.age)]

AttributeNames == {"name", "age"}

\* Attributes::get_field
GetField(attrs, selector) ==
    IF selector \in DOMAIN attrs
    THEN [ok |-> TRUE, val |-> attrs[selector], err |-> NoErr]
    ELSE [ok |-> FALSE, val |-> StringField(<<>>), err |-> FieldNotExist(selector)]

\* AttributeField::eq_with_str
EqWithStr(field, arg, selector) ==
    IF field.ty = "String" THEN OkB(GlobMatch(arg, field.s))
    ELSE IF IsNumeral(arg) THEN OkB(field.n = ParseNum(arg))
    ELSE ErrB(FieldTypeMismatch(selector))

\* AttributeField::cmp_with_str
CmpWithStr(field, arg, selector) ==
    IF field.ty = "String" THEN OkO(StrCmp(field.s, arg))
    ELSE IF IsNumeral(arg) THEN OkO(IntCmp(field.n, ParseNum(arg)))
    ELSE ErrO(FieldTypeMismatch(selector))

(***************************************************************************)
(* rsql_rs expressions.  A Comparison is named by its symbol.              *)
(***************************************************************************)
EQUAL == "=="
NOT_EQUAL == "!="
GREATER_THAN == ">"
GREATER_THAN_OR_EQUAL == ">="
LESS_THAN == "<"
LESS_THAN_OR_EQUAL == "<="
IN_ == "=in="
OUT_ == "=out="
CUSTOM == "=ex="

Item(selector, comparison, arguments) ==
    [kind |-> "Item", selector |-> selector, comparison |-> comparison,
     arguments |-> arguments]

Node(op, left, right) == [kind |-> "Node", op |-> op, left |-> left, right |-> right]

(***************************************************************************)
(* RsqlFilterData::filter_on_attributes, branch by branch.                 *)
(***************************************************************************)
\* comparison == EQUAL, one argument
EvalEqual(field, arguments, selector) == EqWithStr(field, arguments[1], selector)

\* mutant of EvalNotEqual: the "== false" is lost
EvalNotEqual_Unnegated(field, arguments, selector) ==
    EqWithStr(field, arguments[1], selector)

\* comparison == NOT_EQUAL, one argument
EvalNotEqual(field, arguments, selector) ==
    LET r == EqWithStr(field, arguments[1], selector)
    IN  IF r.ok THEN OkB(r.val = FALSE) ELSE r

\* the four ordering comparisons, one argument: accept is the set of
\* Ordering values the branch takes for true
EvalOrdering(field, arguments, selector, accept) ==
    LET r == CmpWithStr(field, arguments[1], selector)
    IN  IF r.ok THEN OkB(r.val \in accept) ELSE ErrB(r.err)

\* comparison == IN
EvalIn(field, arguments, selector) ==
    OkB(\E i \in 1..Len(arguments) : EqWithStr(field, arguments[i], selector).ok)

\* comparison == OUT
EvalOut(field, arguments, selector) ==
    OkB(~ \E i \in 1..Len(arguments) : EqWithStr(field, arguments[i], selector).ok)

\* mutant of FilterOnItem: IN and OUT take exactly one argument, like the
\* other six comparisons
FilterOnItem_InOutOneArgument(c, entity) ==
    LET f == GetField(Attributes(entity), c.selector)
        one == Len(c.arguments) = 1
    IN  IF ~ f.ok THEN ErrB(FieldNotExist(c.selector))
        ELSE IF c.comparison = EQUAL /\ one
             THEN EvalEqual(f.val, c.arguments, c.selector)
        ELSE IF c.comparison = NOT_EQUAL /\ one
             THEN EvalNotEqual(f.val, c.arguments, c.selector)
        ELSE IF c.comparison = GREATER_THAN /\ one
             THEN EvalOrdering(f.val, c.arguments, c.selector, {"Greater"})
        ELSE IF c.comparison = GREATER_THAN_OR_EQUAL /\ one
             THEN EvalOrdering(f.val, c.arguments, c.selector, {"Greater", "Equal"})
        ELSE IF c.comparison = LESS_THAN /\ one
             THEN EvalOrdering(f.val, c.arguments, c.selector, {"Less"})
        ELSE IF c.comparison = LESS_THAN_OR_EQUAL /\ one
             THEN EvalOrdering(f.val, c.arguments, c.selector, {"Less", "Equal"})
        ELSE IF c.comparison = IN_ /\ one THEN EvalIn(f.val, c.arguments, c.selector)
        ELSE IF c.comparison = OUT_ /\ one THEN EvalOut(f.val, c.arguments, c.selector)
        ELSE ErrB(UnsupportedRsqlComparison(c.comparison, Len(c.arguments)))

\* Expr::Item
FilterOnItem(c, entity) ==
    LET f == GetField(Attributes(entity), c.selector)
        one == Len(c.arguments) = 1
    IN  IF ~ f.ok THEN ErrB(FieldNotExist(c.selector))
        ELSE IF c.comparison = EQUAL /\ one
             THEN EvalEqual(f.val, c.arguments, c.selector)
        ELSE IF c.comparison = NOT_EQUAL /\ one
             THEN EvalNotEqual(f.val, c.arguments, c.selector)
        ELSE IF c.comparison = GREATER_THAN /\ one
             THEN EvalOrdering(f.val, c.arguments, c.selector, {"Greater"})
        ELSE IF c.comparison = GREATER_THAN_OR_EQUAL /\ one
             THEN EvalOrdering(f.val, c.arguments, c.selector, {"Greater", "Equal"})
        ELSE IF c.comparison = LESS_THAN /\ one
             THEN EvalOrdering(f.val, c.arguments, c.selector, {"Less"})
        ELSE IF c.comparison = LESS_THAN_OR_EQUAL /\ one
             THEN EvalOrdering(f.val, c.arguments, c.selector, {"Less", "Equal"})
        ELSE IF c.comparison = IN_ THEN EvalIn(f.val, c.arguments, c.selector)
        ELSE IF c.comparison = OUT_ THEN EvalOut(f.val, c.arguments, c.selector)
        ELSE ErrB(UnsupportedRsqlComparison(c.comparison, Len(c.arguments)))

\* Expr::Node, given the outcome of the left operand and the right operand
\* (evaluated only where the code evaluates it)
RECURSIVE FilterOnAttributes(_, _)
FilterOnNode(expr, entity) ==
    LET left == FilterOnAttributes(expr.left, entity)
    IN  IF ~ left.ok THEN left
        ELSE IF expr.op = "And"
             THEN IF left.val THEN FilterOnAttributes(expr.right, entity) ELSE OkB(FALSE)
             ELSE IF left.val THEN OkB(TRUE) ELSE FilterOnAttributes(expr.right, entity)

FilterOnAttributes(expr, entity) ==
    IF expr.kind = "Item" THEN FilterOnItem(expr, entity)
    ELSE FilterOnNode(expr, entity)

(***************************************************************************)
(* RsqlFilterData::filter                                                  *)
(***************************************************************************)
\* the closure of filter_map: what one element contributes under one key
FilterElem(key, expr, r) ==
    LET e == FilterOnAttributes(expr, r)
    IN  IF Ty # key THEN ErrB(RsqlFilterOnRelatedNotImplemented) ELSE e

\* one pass of the for loop: filter_map + collect::<RbhResult<Vec<E>>>()
FilterPass(key, expr, ents) ==
    LET res == [i \in 1..Len(ents) |-> FilterElem(key, expr, ents[i])]
        bad == {i \in 1..Len(ents) : ~ res[i].ok}
        first == CHOOSE i \in bad : \A j \in bad : i <= j
        kept == {i \in 1..Len(ents) : res[i].val}
        F[i \in 0..Len(ents)] ==
            IF i = 0 THEN <<>>
            ELSE IF i \in kept THEN Append(F[i - 1], ents[i]) ELSE F[i - 1]
    IN  IF bad # {} THEN ErrV(res[first].err) ELSE OkV(F[Len(ents)])

\* the for loop over the map, its keys coming in the order ord
RECURSIVE Filter(_, _, _)
Filter(f, ord, ents) ==
    IF ord = <<>> THEN OkV(ents)
    ELSE LET p == FilterPass(Head(ord), f[Head(ord)], ents)
         IN  IF ~ p.ok THEN p ELSE Filter(f, Tail(ord), p.val)

\* tests/filter_test.rs, rsql_test: the three assertions on DOGS
rsql_test ==
    LET run(raw) == Filter([k \in {Ty} |-> raw], <<Ty>>, DOGS)
        r1 == run(Item("name", EQUAL, << <<"1", "2", "3">> >>))
        r2 == run(Item("name", NOT_EQUAL, << <<"1", "2", "3">> >>))
        r3 == run(Item("name", EQUAL, << <<"1", "2", "*">> >>))
    IN  /\ r1.ok /\ Len(r1.val) = 1
        /\ r2.ok /\ Len(r2.val) = 2
        /\ r3.ok /\ Len(r3.val) = 2

(***************************************************************************)
(* The inputs of a filter call.                                            *)
(***************************************************************************)
Args == { <<"1", "2", "3">>, <<"1", "2", "*">>, <<"2">> }

ArgLists == UNION {[1..n -> Args] : n \in 0..MaxArgs}

Selectors == {"name", "age", "nosuch"}

Comparisons == {EQUAL, NOT_EQUAL, GREATER_THAN, GREATER_THAN_OR_EQUAL, LESS_THAN,
                LESS_THAN_OR_EQUAL, IN_, OUT_, CUSTOM}

Leaves == {Item(s, c, a) : s \in Selectors, c \in Comparisons, a \in ArgLists}

\* the operands of composite expressions: one-argument constraints
NodeLeaves ==
    {Item(s, c, <<a>>) : s \in Selectors, c \in Comparisons, a \in Args}

Nodes == {Node(op, l, r) : op \in {"And", "Or"}, l \in NodeLeaves, r \in NodeLeaves}

Exprs == Leaves \cup Nodes

RelatedKey == "owner"

\* a filter is a map with the entity's own key, a relationship's key, or both
Filters ==
    {[k \in {Ty} |-> e] : e \in Exprs}
    \cup {[k \in {RelatedKey} |-> e] : e \in NodeLeaves}
    \cup [{Ty, RelatedKey} -> NodeLeaves]

RECURSIVE Pick(_, _)
Pick(s, idx) ==
    IF idx = {} THEN <<>>
    ELSE LET m == CHOOSE i \in idx : \A j \in idx : i <= j
         IN  <<s[m]>> \o Pick(s, idx \ {m})

\* the collections: up to MaxColl of the dogs, in their order
Collections ==
    {Pick(DOGS, idx) : idx \in {x \in SUBSET (1..Len(DOGS)) : Cardinality(x) <= MaxColl}}

\* the orders in which a HashMap with these keys may yield them
Orders(keys) ==
    {s \in [1..Cardinality(keys) -> keys] : \A i, j \in 1..Cardinality(keys) :
        s[i] = s[j] => i = j}

\* what an operation of the service returned: the operation, Ok or the
\* error, for create the id of the human it returned, and for the
\* relationship operations the field name they were called with
SOk(op, id) == [op |-> op, ok |-> TRUE, err |-> "", id |-> id, field |-> ""]
SErr(op, e) == [op |-> op, ok |-> FALSE, err |-> e, id |-> "", field |-> ""]
OnField(o, field) == [o EXCEPT !.res.field = field]
NoOp == SErr("", "")

\* a request: its Content-Type and Accept headers (<<>> when absent) and
\* whether its URI holds a well-formed query
Request(content_type, accept, query_ok) ==
    [content_type |-> content_type, accept |-> accept, query_ok |-> query_ok]

\* a response: the handler and the request it answers, its error ("" for
\* a success document) and whether the handler locked and called the service
Response(handler, req, err, invoked) ==
    [handler |-> handler, req |-> req, err |-> err, invoked |-> invoked]
NoResp == Response("", Request(<<>>, <<>>, TRUE), "none", FALSE)

\* HumanService::new: no human
ServiceIdle ==
    /\ hstore = <<>>
    /\ hres = NoOp
    /\ resp = NoResp

\* RsqlFilterData::new is not in use
NewIdle ==
    /\ params = <<>>
    /\ newOrder = <<>>
    /\ npc = "idle"
    /\ newOut = NoCallN

(***************************************************************************)
(* Spec: one call of RsqlFilterData::filter.                               *)
(***************************************************************************)
PageIdle ==
    /\ coll = <<>>
    /\ sortQuery = <<>>
    /\ pageQuery = <<>>
    /\ ppc = "idle"
    /\ pageOut = NoCall

EntityIdle ==
    /\ human = <<>>
    /\ includeQuery = <<>>
    /\ incOut = NoCallS
    /\ relOut = NoCall
    /\ doc = NoCallS

Init ==
    /\ entities \in Collections
    /\ filt \in Filters
    /\ order = <<>>
    /\ pc = "ready"
    /\ out = NoCall
    /\ EntityIdle
    /\ PageIdle
    /\ NewIdle
    /\ ServiceIdle

FilterCall ==
    /\ pc = "ready"
    /\ \E ord \in Orders(DOMAIN filt) :
        /\ order' = ord
        /\ out' = Filter(filt, ord, entities)
    /\ pc' = "done"
    /\ UNCHANGED <<entities, filt>>
    /\ UNCHANGED <<entityVars, pageVars, newVars, serviceVars>>

Next == FilterCall

Spec == Init /\ [][Next]_vars

(***************************************************************************)
(* The code the EntityDecorator derive macro generates, for a struct       *)
(*     Human { id, favorite: Option<Pet> (to-one), dogs: Vec<Pet> (to-many) }*)
(* whose related entities are                                              *)
(*     Pet { id, name, mate: Option<..> (to-one) }.                        *)
(* An Option is a sequence of length 0 (None) or 1 (Some).                 *)
(***************************************************************************)
ToOnes == <<"favorite">>
ToManys == <<"dogs">>

Some(x) == <<x>>
None == <<>>

PetTy == "dogs"

Identifier(ty, id) == [ty |-> ty, id |-> id]

\* a pet's own related entity, one level further down
Mate == [id |-> "z", name |-> "zed"]

Pet(id, name, mate, convertible) ==
    [id |-> id, name |-> name, mate |-> mate, convertible |-> convertible]

\* two pets share the id "x" and differ in content; one pet does not convert
Pets == { Pet("x", "rex", None, TRUE), Pet("x", "max", Some(Mate), TRUE),
          Pet("y", "rex", None, TRUE), Pet("y", "rex", None, FALSE) }

ConversionError == [kind |-> "ConversionError", what |-> "", n |-> 0]

\* the Resource of a pet: type, id, attributes, and relationships as identifiers
Resource(p) ==
    [ty |-> PetTy, id |-> p.id, name |-> p.name,
     mate |-> IF p.mate = None THEN None ELSE Some(Identifier(PetTy, p.mate[1].id))]

Key(r) == Identifier(r.ty, r.id)

\* Entity::to_resource of a single related entity: RbhResult<Option<Resource>>
ToResource(p) == IF p.convertible THEN OkV(Some(Resource(p))) ELSE ErrV(ConversionError)

\* Entity::to_resource_identifier of a to-one field's value or of an item
ToResourceIdentifier(target) ==
    IF target = None THEN None ELSE Some(Identifier(PetTy, target[1].id))

\* Included::insert: a set keyed by (type, id); an entry already there stays
InsertIncluded(included, inc) ==
    IF \E r \in included : Key(r) = Key(inc) THEN included ELSE included \cup {inc}

\* mutant of WalkField: the include query is ignored
WalkField_Always(name, include_query) == TRUE

\* `if let Some(included_fields) = include_query { if included_fields.contains(name)`
\* ... `} else {` ... : whether included() walks the field
WalkField(name, include_query) ==
    IF include_query # None THEN name \in include_query[1] ELSE TRUE

\* the related entities included() converts, in the order it converts them:
\* the to-one fields, then the items of the to-many fields
RECURSIVE Walked(_, _, _)
Walked(self, names, include_query) ==
    IF names = <<>> THEN <<>>
    ELSE (IF WalkField(Head(names), include_query) THEN self[Head(names)] ELSE <<>>)
         \o Walked(self, Tail(names), include_query)

\* mutant of ConvertAll: an entity that does not convert is skipped
RECURSIVE ConvertAll_SkipFailed(_, _)
ConvertAll_SkipFailed(targets, included) ==
    IF targets = <<>> THEN OkS(included)
    ELSE LET r == ToResource(Head(targets))
         IN  IF ~ r.ok THEN ConvertAll_SkipFailed(Tail(targets), included)
             ELSE ConvertAll_SkipFailed(Tail(targets), InsertIncluded(included, r.val[1]))

\* mutant of ConvertAll: resources are added without looking for their key
RECURSIVE ConvertAll_NoDedup(_, _)
ConvertAll_NoDedup(targets, included) ==
    IF targets = <<>> THEN OkS(included)
    ELSE LET r == ToResource(Head(targets))
         IN  IF ~ r.ok THEN ErrS(r.err)
             ELSE ConvertAll_NoDedup(Tail(targets), included \cup {r.val[1]})

\* `if let Some(inc) = x.to_resource(uri, fields_query)? { included.insert(inc); }`
\* for each walked entity in turn
RECURSIVE ConvertAll(_, _)
ConvertAll(targets, included) ==
    IF targets = <<>> THEN OkS(included)
    ELSE LET r == ToResource(Head(targets))
         IN  IF ~ r.ok THEN ErrS(r.err)
             ELSE ConvertAll(Tail(targets), InsertIncluded(included, r.val[1]))

\* Entity::included
Included(self, include_query) ==
    ConvertAll(Walked(self, ToOnes \o ToManys, include_query), {})

Single(id) == [kind |-> "Single", ids |-> id]
Multiple(ids) == [kind |-> "Multiple", ids |-> ids]

Relationship(data) == [data |-> data]

\* the first loop of relationships(): the to-one fields
RECURSIVE RelateToOnes(_, _, _)
RelateToOnes(self, names, relat_map) ==
    IF names = <<>> THEN relat_map
    ELSE LET relat_id == ToResourceIdentifier(self[Head(names)])
             next == IF relat_id # None
                     THEN (Head(names) :> Relationship(Single(relat_id))) @@ relat_map
                     ELSE relat_map
         IN  RelateToOnes(self, Tail(names), next)

\* the second loop of relationships(): the to-many fields
RECURSIVE RelateToManys(_, _, _)
RelateToManys(self, names, relat_map) ==
    IF names = <<>> THEN relat_map
    ELSE LET items == self[Head(names)]
             relat_ids == [i \in 1..Len(items) |-> Identifier(PetTy, items[i].id)]
         IN  RelateToManys(self, Tail(names),
                           (Head(names) :> Relationship(Multiple(relat_ids))) @@ relat_map)

\* SingleEntity::relationships, with a base uri its links can be built from
Relationships(self) == OkV(RelateToManys(self, ToManys, RelateToOnes(self, ToOnes, <<>>)))

\* the document's included set takes what included() returned for one more
\* primary entity, each resource by Included::insert; a failure aborts the
\* assembly
Accumulate(document, inc) ==
    IF ~ document.ok THEN document
    ELSE IF ~ inc.ok THEN ErrS(inc.err)
    ELSE OkS(document.val \cup
             {r \in inc.val : ~ \E q \in document.val : Key(q) = Key(r)})

(***************************************************************************)
(* The inputs of the entity calls.                                         *)
(***************************************************************************)
PetLists == UNION {[1..n -> Pets] : n \in 0..MaxMany}

Humans == {[id |-> "h", favorite |-> f, dogs |-> d] :
              f \in {None} \cup {Some(p) : p \in Pets}, d \in PetLists}

\* absent, or a set of names; "dog" names no field
IncludeQueries == {None} \cup {Some(q) : q \in SUBSET {"favorite", "dogs", "dog"}}

(***************************************************************************)
(* SpecEntity: included() and relationships() called on one entity, or     *)
(* (human = NoHuman) the assembler building a document's included set from *)
(* the primary entities of a collection, one included() call after another.*)
(***************************************************************************)
NoHuman == <<>>

FilterIdle ==
    /\ entities = <<>>
    /\ filt = <<>>
    /\ order = <<>>
    /\ pc = "idle"
    /\ out = NoCall

InitEntity ==
    /\ human \in Humans \cup {NoHuman}
    /\ includeQuery \in IncludeQueries
    /\ incOut = NoCallS
    /\ relOut = NoCall
    /\ doc = OkS({})
    /\ FilterIdle
    /\ PageIdle
    /\ NewIdle
    /\ ServiceIdle

IncludedCall ==
    /\ human # NoHuman
    /\ incOut = NoCallS
    /\ incOut' = Included(human, includeQuery)
    /\ UNCHANGED <<human, includeQuery, relOut, doc>>
    /\ UNCHANGED <<filterVars, pageVars, newVars, serviceVars>>

RelationshipsCall ==
    /\ human # NoHuman
    /\ relOut = NoCall
    /\ relOut' = Relationships(human)
    /\ UNCHANGED <<human, includeQuery, incOut, doc>>
    /\ UNCHANGED <<filterVars, pageVars, newVars, serviceVars>>

\* the assembler takes the next primary entity of the collection
AssembleNext ==
    /\ human = NoHuman
    /\ doc.ok
    /\ \E h \in Humans :
        /\ incOut' = Included(h, includeQuery)
        /\ doc' = Accumulate(doc, Included(h, includeQuery))
    /\ UNCHANGED <<human, includeQuery, relOut>>
    /\ UNCHANGED <<filterVars, pageVars, newVars, serviceVars>>

NextEntity == IncludedCall \/ RelationshipsCall \/ AssembleNext

SpecEntity == InitEntity /\ [][NextEntity]_vars

(***************************************************************************)
(* Sort and cursor pagination of a collection, as                          *)
(* to_document_automatically applies them (tests/query_test.rs).           *)
(***************************************************************************)
\* tests/query_test.rs: DOGS, and a fourth dog that ties with a on both keys
QDOGS == << Dog("a", <<"1">>, 3), Dog("b", <<"2">>, 2), Dog("c", <<"2">>, 1) >>

PageDogs == Range(QDOGS) \cup {Dog("d", <<"1">>, 3)}

SortKey(attr, ord) == [attr |-> attr, ord |-> ord]

CursorBasedData(target_id, is_look_after, limit) ==
    [target_id |-> target_id, is_look_after |-> is_look_after, limit |-> limit]

CursorTargetNotFound(id) == [kind |-> "CursorTargetNotFound", what |-> id, n |-> 0]

\* the order of two entities on one attribute: numbers numerically, strings
\* lexically
CmpAttr(a, b, attr) ==
    IF Attributes(a)[attr].ty = "Number"
    THEN IntCmp(Attributes(a)[attr].n, Attributes(b)[attr].n)
    ELSE StrCmp(Attributes(a)[attr].s, Attributes(b)[attr].s)

Reverse(o) == IF o = "Less" THEN "Greater" ELSE IF o = "Greater" THEN "Less" ELSE o

\* the keys left to right, the first that is not Equal decides
RECURSIVE CmpBy(_, _, _)
CmpBy(keys, a, b) ==
    IF keys = <<>> THEN "Equal"
    ELSE LET o == CmpAttr(a, b, Head(keys).attr)
             d == IF Head(keys).ord = "Desc" THEN Reverse(o) ELSE o
         IN  IF d # "Equal" THEN d ELSE CmpBy(Tail(keys), a, b)

\* x goes after every element that is not greater than it
RECURSIVE InsertSorted(_, _, _)
InsertSorted(keys, sorted, x) ==
    IF sorted = <<>> THEN <<x>>
    ELSE IF CmpBy(keys, x, Head(sorted)) = "Less" THEN <<x>> \o sorted
    ELSE <<Head(sorted)>> \o InsertSorted(keys, Tail(sorted), x)

\* the stable sort of the collection by the keys
RECURSIVE Sort(_, _)
Sort(keys, es) ==
    IF es = <<>> THEN <<>>
    ELSE InsertSorted(keys, Sort(keys, SubSeq(es, 1, Len(es) - 1)), es[Len(es)])

Min(a, b) == IF a < b THEN a ELSE b
Max(a, b) == IF a > b THEN a ELSE b

\* mutant of CursorPage: the page starts at the target itself
CursorPage_WithTarget(es, page) ==
    LET at == {i \in 1..Len(es) : es[i].id = page.target_id}
        idx == CHOOSE i \in at : TRUE
    IN  IF at = {} THEN ErrV(CursorTargetNotFound(page.target_id))
        ELSE IF page.is_look_after
             THEN OkV(SubSeq(es, idx, Min(idx + page.limit - 1, Len(es))))
             ELSE OkV(SubSeq(es, Max(1, idx - page.limit + 1), idx))

\* cursor pagination: up to limit consecutive elements right after, or right
\* before, the element with the target id
CursorPage(es, page) ==
    LET at == {i \in 1..Len(es) : es[i].id = page.target_id}
        idx == CHOOSE i \in at : TRUE
    IN  IF at = {} THEN ErrV(CursorTargetNotFound(page.target_id))
        ELSE IF page.is_look_after
             THEN OkV(SubSeq(es, idx + 1, Min(idx + page.limit, Len(es))))
             ELSE OkV(SubSeq(es, Max(1, idx - page.limit), idx - 1))

Ids(es) == [i \in 1..Len(es) |-> es[i].id]

\* the primary data of the document: sort, then page
PrimaryData(es, sort, page) ==
    LET p == CursorPage(Sort(sort, es), page)
    IN  IF p.ok THEN OkV(Ids(p.val)) ELSE p

\* sort_and_page_test: its query and what it asserts of the document
TestSort == << SortKey("name", "Desc"), SortKey("age", "Desc") >>

TestPage == CursorBasedData("b", TRUE, 2)

sort_and_page_test ==
    LET data == PrimaryData(QDOGS, TestSort, TestPage)
    IN  data.ok /\ Len(data.val) = 2 /\ data.val[1] = "c" /\ data.val[2] = "a"

(***************************************************************************)
(* SpecPage: a document assembled from a collection with sort keys and a   *)
(* cursor page.                                                            *)
(***************************************************************************)
PageCollections ==
    {s \in UNION {[1..n -> PageDogs] : n \in 0..MaxPage} :
        \A i, j \in 1..Len(s) : s[i].id = s[j].id => i = j}

SortKeys == {SortKey(a, o) : a \in AttributeNames, o \in {"Asc", "Desc"}}

\* no key, one key, or two keys on different attributes
SortQueries ==
    {<<>>} \cup {<<k>> : k \in SortKeys}
    \cup {q \in {<<k1, k2>> : k1 \in SortKeys, k2 \in SortKeys} : q[1].attr # q[2].attr}

PageQueries ==
    {CursorBasedData(t, after, n) :
        t \in {d.id : d \in PageDogs}, after \in BOOLEAN, n \in 0..MaxLimit}

InitPage ==
    /\ coll \in PageCollections
    /\ sortQuery \in SortQueries
    /\ pageQuery \in PageQueries
    /\ ppc = "ready"
    /\ pageOut = NoCall
    /\ FilterIdle
    /\ EntityIdle
    /\ NewIdle
    /\ ServiceIdle

ToDocument ==
    /\ ppc = "ready"
    /\ pageOut' = PrimaryData(coll, sortQuery, pageQuery)
    /\ ppc' = "done"
    /\ UNCHANGED <<coll, sortQuery, pageQuery>>
    /\ UNCHANGED <<filterVars, entityVars, newVars, serviceVars>>

NextPage == ToDocument

SpecPage == InitPage /\ [][NextPage]_vars

(***************************************************************************)
(* RsqlFilterData::new: the parameter map key -> raw expression is parsed  *)
(* into the map key -> Expr.  Keys are sequences of characters.            *)
(***************************************************************************)
\* str::contains(char)
Contains(k, ch) == \E i \in 1..Len(k) : k[i] = ch

\* the raw expressions of the model and what the RSQL grammar makes of them
RawValues == {"name==2", "age>1", "name=="}

\* RsqlParser::parse_to_node: Ok(Expr), or an error for a text outside the grammar
ParseToNode(v) ==
    IF v = "name==2" THEN OkB(Item("name", EQUAL, << <<"2">> >>))
    ELSE IF v = "age>1" THEN OkB(Item("age", GREATER_THAN, << <<"1">> >>))
    ELSE ErrB(NoErr)

\* what the loop body makes of the entry (k, v): the error it returns, or
\* the entry it inserts into res
NewEntry(k, v) ==
    IF Contains(k, ".") THEN ErrN(RelationshipPathNotSupported(k))
    ELSE IF ~ ParseToNode(v).ok THEN ErrN(UnmatchedFilterItem(k, v))
    ELSE OkN(Some(ParseToNode(v).val))

\* the for loop over params, its entries coming in the order ord, res the
\* map built so far
RECURSIVE NewLoop(_, _, _)
NewLoop(p, ord, res) ==
    IF ord = <<>>
    THEN OkN(IF DOMAIN res = {} THEN None ELSE Some(res))
    ELSE LET k == Head(ord)
             e == NewEntry(k, p[k])
         IN  IF ~ e.ok THEN e
             ELSE NewLoop(p, Tail(ord), [x \in DOMAIN res \cup {k} |->
                                            IF x = k THEN e.val[1] ELSE res[x]])

\* RsqlFilterData::new
New(p, ord) == NewLoop(p, ord, [x \in {} |-> 0])

\* the keys of the model: two type names and two relationship paths
ParamKeys == { <<"d">>, <<"o">>, <<"o", ".", "n">>, <<"d", ".", "a">> }

\* the parameter maps of up to MaxParams entries
ParamMaps ==
    UNION {[ks -> RawValues] : ks \in {x \in SUBSET ParamKeys : Cardinality(x) <= MaxParams}}

InitNew ==
    /\ params \in ParamMaps
    /\ newOrder = <<>>
    /\ npc = "ready"
    /\ newOut = NoCallN
    /\ FilterIdle
    /\ EntityIdle
    /\ PageIdle
    /\ ServiceIdle

NewCall ==
    /\ npc = "ready"
    /\ \E ord \in Orders(DOMAIN params) :
        /\ newOrder' = ord
        /\ newOut' = New(params, ord)
    /\ npc' = "done"
    /\ UNCHANGED params
    /\ UNCHANGED <<filterVars, entityVars, pageVars, serviceVars>>

NextNew == NewCall

SpecNew == InitNew /\ [][NextNew]_vars

(***************************************************************************)
(* HumanService (tests/service/human.rs): a store key -> Human and the     *)
(* dog service behind it.  A Uuid is written as its canonical text; a dog  *)
(* is written as its id.                                                   *)
(***************************************************************************)
ENTITY_NOT_FOUND == "EntityNotFound"
DUPLICATE_ID == "DuplicateId"
INVALID_UUID == "InvalidUuid"
WRONG_FIELD_TYPE == "WrongFieldType"
MULTIPLE_RELATIONSHIP_NEEDED == "MultipleRelationshipNeeded"
FIELD_NOT_EXIST == "FieldNotExist"
DOG_NOT_FOUND == "DogNotFound"
NOT_IMPLEMENTED == "OperationNotImplemented"

OkU(v) == [ok |-> TRUE, val |-> v, err |-> ""]
ErrU(e) == [ok |-> FALSE, val |-> "", err |-> e]
OkD(v) == [ok |-> TRUE, val |-> v, err |-> ""]
ErrD(e) == [ok |-> FALSE, val |-> <<>>, err |-> e]

\* the Uuids of the model, each written as the text Uuid::to_string gives
Uuids == {"a", "b"}

\* a hexadecimal digit in lower case
ToLower(s) == IF s = "A" THEN "a" ELSE IF s = "B" THEN "b" ELSE s

\* Uuid::parse_str: the digits are read in either case
ParseStr(s) == IF ToLower(s) \in Uuids THEN OkU(ToLower(s)) ELSE ErrU(INVALID_UUID)

\* Uuid::to_string: the lower-case text
UuidToString(u) == u

Human(id, name, dogs) == [id |-> id, name |-> name, dogs |-> dogs]

\* the dogs the dog service holds
DogIds == {"d1", "d2"}

\* DogService::get_by_ids: the dogs of the ids, or an error for an unknown id
GetByIds(ids) ==
    IF \E i \in 1..Len(ids) : ids[i] \notin DogIds THEN ErrD(DOG_NOT_FOUND) ELSE OkD(ids)

\* Human::add_dogs: the dogs are appended
AddDogs(dogs, new) == dogs \o new

\* Human::remove_dogs: the dogs with one of the ids are dropped
RemoveDogs(dogs, ids) == SelectSeq(dogs, LAMBDA d : d \notin Range(ids))

\* HashMap::insert: the entry under key is set, replacing one already there
Insert(store, key, h) ==
    [k \in DOMAIN store \cup {key} |-> IF k = key THEN h ELSE store[k]]

\* an attribute field of the request: absent, a string or a number
NoField == [kind |-> "absent", s |-> ""]
StringValue(s) == [kind |-> "String", s |-> s]
NumberValue == [kind |-> "Number", s |-> ""]

\* `.iter().map(|id| id.id.clone()).collect()`
IdsOf(identifiers) == [i \in 1..Len(identifiers) |-> identifiers[i].id]

\* `.filter_map(|i| if &i.ty == field { Some(i.id.clone()) } else { None })`
IdsOfType(datas, field) == IdsOf(SelectSeq(datas, LAMBDA i : i.ty = field))

\* the outcome of an operation: the store it leaves and what it returns
Outcome(store, res) == [store |-> store, res |-> res]

\* the id of create: the client's, checked and parsed, or a new one
CreateId(store, client_id, fresh) ==
    IF client_id # ""
    THEN IF client_id \in DOMAIN store THEN ErrU(DUPLICATE_ID) ELSE ParseStr(client_id)
    ELSE OkU(fresh)

\* mutant of Create: the human is inserted before its name is looked at
Create_InsertBeforeName(store, data, fresh) ==
    LET id == CreateId(store, data.id, fresh)
        dog_ids == IF data.dogs = None THEN <<>> ELSE IdsOf(data.dogs[1])
        dogs == GetByIds(dog_ids)
        inserted == Insert(store, UuidToString(id.val), Human(id.val, data.name.s, dogs.val))
    IN  IF ~ id.ok THEN Outcome(store, SErr("create", id.err))
        ELSE IF ~ dogs.ok THEN Outcome(store, SErr("create", dogs.err))
        ELSE IF data.name = NoField THEN Outcome(inserted, SErr("create", FIELD_NOT_EXIST))
        ELSE IF data.name.kind = "String" THEN Outcome(inserted, SOk("create", id.val))
        ELSE Outcome(inserted, SErr("create", WRONG_FIELD_TYPE))

\* Creating::create; data is (id, dogs relationship, name attribute), fresh
\* is the value of Uuid::new_v4()
Create(store, data, fresh) ==
    LET id == CreateId(store, data.id, fresh)
        dog_ids == IF data.dogs = None THEN <<>> ELSE IdsOf(data.dogs[1])
        dogs == GetByIds(dog_ids)
    IN  IF ~ id.ok THEN Outcome(store, SErr("create", id.err))
        ELSE IF ~ dogs.ok THEN Outcome(store, SErr("create", dogs.err))
        ELSE IF data.name = NoField THEN Outcome(store, SErr("create", FIELD_NOT_EXIST))
        ELSE IF data.name.kind = "String"
        THEN Outcome(Insert(store, UuidToString(id.val), Human(id.val, data.name.s, dogs.val)),
                     SOk("create", id.val))
        ELSE Outcome(store, SErr("create", WRONG_FIELD_TYPE))

\* Updating::update_resource
UpdateResource(store, id, data) ==
    IF id \in DOMAIN store
    THEN LET h == store[id]
             dogs == IF data.dogs = None THEN OkD(h.dogs)
                     ELSE GetByIds(IdsOf(data.dogs[1]))
             name == IF data.name.kind = "String" THEN data.name.s ELSE h.name
         IN  IF ~ dogs.ok THEN Outcome(store, SErr("update_resource", dogs.err))
             ELSE Outcome(Insert(store, id, Human(h.id, name, dogs.val)),
                          SOk("update_resource", ""))
    ELSE Outcome(store, SErr("update_resource", ENTITY_NOT_FOUND))

\* Updating::replace_relationship
ReplaceRelationship(store, id, field, data) ==
    IF id \in DOMAIN store
    THEN IF data.kind = "Single"
         THEN Outcome(store, SErr("replace_relationship", MULTIPLE_RELATIONSHIP_NEEDED))
         ELSE LET dogs == GetByIds(IdsOfType(data.ids, field))
              IN  IF ~ dogs.ok THEN Outcome(store, SErr("replace_relationship", dogs.err))
                  ELSE Outcome([store EXCEPT ![id].dogs = dogs.val],
                               SOk("replace_relationship", ""))
    ELSE Outcome(store, SErr("replace_relationship", ENTITY_NOT_FOUND))

\* Updating::add_relationship
AddRelationship(store, id, field, data) ==
    IF id \in DOMAIN store
    THEN IF data.kind = "Single"
         THEN Outcome(store, SErr("add_relationship", MULTIPLE_RELATIONSHIP_NEEDED))
         ELSE LET dogs == GetByIds(IdsOfType(data.ids, field))
              IN  IF ~ dogs.ok THEN Outcome(store, SErr("add_relationship", dogs.err))
                  ELSE Outcome([store EXCEPT ![id].dogs = AddDogs(@, dogs.val)],
                               SOk("add_relationship", ""))
    ELSE Outcome(store, SErr("add_relationship", ENTITY_NOT_FOUND))

\* Updating::remove_relationship
RemoveRelationship(store, id, field, data) ==
    IF id \in DOMAIN store
    THEN IF data.kind = "Single"
         THEN Outcome(store, SErr("remove_relationship", MULTIPLE_RELATIONSHIP_NEEDED))
         ELSE Outcome([store EXCEPT ![id].dogs = RemoveDogs(@, IdsOfType(data.ids, field))],
                      SOk("remove_relationship", ""))
    ELSE Outcome(store, SErr("remove_relationship", ENTITY_NOT_FOUND))

\* Fetching::fetch_relationship: the relationships of a human's resource are
\* its field "dogs"
FetchRelationship(store, id, related_field) ==
    IF id \in DOMAIN store
    THEN IF related_field \in Range(ToManys)
         THEN SOk("fetch_relationship", "")
         ELSE SErr("fetch_relationship", FIELD_NOT_EXIST)
    ELSE SErr("fetch_relationship", ENTITY_NOT_FOUND)

\* Fetching::fetch_related
FetchRelated(store, id, related_field) ==
    IF id \in DOMAIN store
    THEN IF related_field = "dogs"
         THEN SOk("fetch_related", "")
         ELSE SErr("fetch_related", FIELD_NOT_EXIST)
    ELSE SErr("fetch_related", ENTITY_NOT_FOUND)

\* the inputs: ids as a client writes them, names, fields, identifier lists
ClientIds == {"", "a", "A", "b", "z"}
PathIds == {"a", "b", "z"}
Names == {"n1", "n2"}
NameFields == {NoField, NumberValue} \cup {StringValue(n) : n \in Names}
RelatedFields == {"dogs", "cats"}

IdentifierLists ==
    { <<>>,
      << Identifier("dogs", "d1") >>,
      << Identifier("dogs", "d2") >>,
      << Identifier("dogs", "d1"), Identifier("dogs", "d2") >>,
      << Identifier("cats", "d1") >>,
      << Identifier("dogs", "d1"), Identifier("cats", "d2") >>,
      << Identifier("dogs", "dx") >> }

\* the dogs relationship of a resource in a request: absent, or a list
DogsRelationships ==
    { None, Some(<< Identifier("dogs", "d1") >>), Some(<< Identifier("dogs", "dx") >>) }

ResourceData == [id : ClientIds, dogs : DogsRelationships, name : NameFields]

IdentifierDatas == {Single(None)} \cup {Multiple(l) : l \in IdentifierLists}

\* no human holds more than MaxDogs dogs
WithinBounds(store) == \A k \in DOMAIN store : Len(store[k].dogs) <= MaxDogs

\* the values Uuid::new_v4() may give: the ones not yet in use
FreshUuids(store) == {u \in Uuids : UuidToString(u) \notin DOMAIN store}

InitHuman ==
    /\ ServiceIdle
    /\ FilterIdle
    /\ EntityIdle
    /\ PageIdle
    /\ NewIdle

\* an operation with outcome o was called
Returns(o) ==
    /\ WithinBounds(o.store)
    /\ hstore' = o.store
    /\ hres' = o.res
    /\ UNCHANGED resp
    /\ UNCHANGED <<filterVars, entityVars, pageVars, newVars>>

CreateCall ==
    \E data \in ResourceData :
        IF data.id = ""
        THEN \E fresh \in FreshUuids(hstore) : Returns(Create(hstore, data, fresh))
        ELSE Returns(Create(hstore, data, ""))

\* update_resource does not read the id of the request's resource
UpdateResourceCall ==
    \E id \in PathIds : \E data \in {d \in ResourceData : d.id = id} :
        Returns(UpdateResource(hstore, id, data))

ReplaceRelationshipCall ==
    \E id \in PathIds, field \in RelatedFields, data \in IdentifierDatas :
        Returns(OnField(ReplaceRelationship(hstore, id, field, data), field))

AddRelationshipCall ==
    \E id \in PathIds, field \in RelatedFields, data \in IdentifierDatas :
        Returns(OnField(AddRelationship(hstore, id, field, data), field))

RemoveRelationshipCall ==
    \E id \in PathIds, field \in RelatedFields, data \in IdentifierDatas :
        Returns(OnField(RemoveRelationship(hstore, id, field, data), field))

FetchRelationshipCall ==
    \E id \in PathIds, field \in RelatedFields :
        Returns(Outcome(hstore, FetchRelationship(hstore, id, field)))

FetchRelatedCall ==
    \E id \in PathIds, field \in RelatedFields :
        Returns(Outcome(hstore, FetchRelated(hstore, id, field)))

NextHuman ==
    \/ CreateCall
    \/ UpdateResourceCall
    \/ ReplaceRelationshipCall
    \/ AddRelationshipCall
    \/ RemoveRelationshipCall
    \/ FetchRelationshipCall
    \/ FetchRelatedCall

SpecHuman == InitHuman /\ [][NextHuman]_vars

(***************************************************************************)
(* The actix endpoint (rabbithole-endpoint-actix/src/lib.rs): each handler *)
(* checks the headers, the fetch handlers parse the query, and then the    *)
(* service is locked and called.  The service is the HumanService.         *)
(***************************************************************************)
JSON_API_HEADER == "application/vnd.api+json"

INVALID_CONTENT_TYPE == "InvalidContentType"
INVALID_ACCEPT == "InvalidAccept"
INVALID_QUERY == "InvalidQuery"

OkH == [ok |-> TRUE, err |-> ""]
ErrH(e) == [ok |-> FALSE, err |-> e]

\* RuleDispatcher::ContentTypeMustBeJsonApi
ContentTypeMustBeJsonApi(content_type) ==
    IF content_type = Some(JSON_API_HEADER) THEN OkH ELSE ErrH(INVALID_CONTENT_TYPE)

\* RuleDispatcher::AcceptHeaderShouldBeJsonApi
AcceptHeaderShouldBeJsonApi(accept) ==
    IF accept = Some(JSON_API_HEADER) THEN OkH ELSE ErrH(INVALID_ACCEPT)

\* mutant of check_header: the Accept header is checked first
check_header_AcceptFirst(headers) ==
    IF ~ AcceptHeaderShouldBeJsonApi(headers.accept).ok
    THEN AcceptHeaderShouldBeJsonApi(headers.accept)
    ELSE ContentTypeMustBeJsonApi(headers.content_type)

\* check_header: the two rules in turn, each with `?`
check_header(headers) ==
    IF ~ ContentTypeMustBeJsonApi(headers.content_type).ok
    THEN ContentTypeMustBeJsonApi(headers.content_type)
    ELSE AcceptHeaderShouldBeJsonApi(headers.accept)

\* Query::from_uri(req.uri())
FromUri(req) == IF req.query_ok THEN OkH ELSE ErrH(INVALID_QUERY)

\* Deleting::delete_resource of HumanService: the default of the trait
DeleteResource(store, id) == Outcome(store, SErr("delete_resource", NOT_IMPLEMENTED))

\* Fetching::fetch_collection and fetch_single of HumanService
FetchCollection(store) == Outcome(store, SOk("fetch_collection", ""))
FetchSingle(store, id) == Outcome(store, SOk("fetch_single", ""))

HeaderValues == {None, Some(JSON_API_HEADER), Some("text/html")}

\* the requests of the handlers that parse no query, and of those that do
PlainRequests == {Request(c, a, TRUE) : c \in HeaderValues, a \in HeaderValues \ {None}}
QueryRequests ==
    {Request(c, a, q) : c \in HeaderValues, a \in HeaderValues \ {None}, q \in BOOLEAN}

\* the bodies and paths of the requests
BodyResources == {d \in ResourceData : d.dogs = None /\ d.name = StringValue("n1")}
BodyIdentifiers == {Multiple(<<>>), Multiple(<< Identifier("dogs", "d1") >>)}
Paths == {"a", "z"}

\* the handler answers without the service
Refuses(handler, req, err) ==
    /\ resp' = Response(handler, req, err, FALSE)
    /\ UNCHANGED <<hstore, hres>>
    /\ UNCHANGED <<filterVars, entityVars, pageVars, newVars>>

\* the handler locked the service and called the operation, with outcome o
Calls(handler, req, o) ==
    /\ WithinBounds(o.store)
    /\ resp' = Response(handler, req, o.res.err, TRUE)
    /\ hstore' = o.store
    /\ hres' = o.res
    /\ UNCHANGED <<filterVars, entityVars, pageVars, newVars>>

\* single_step_operation! and delete_resource: check_header, then the call
SingleStep(handler, req, o) ==
    IF ~ check_header(req).ok THEN Refuses(handler, req, check_header(req).err)
    ELSE Calls(handler, req, o)

\* the fetch handlers: check_header, Query::from_uri, then the call
FetchStep(handler, req, o) ==
    IF ~ check_header(req).ok THEN Refuses(handler, req, check_header(req).err)
    ELSE IF ~ FromUri(req).ok THEN Refuses(handler, req, FromUri(req).err)
    ELSE Calls(handler, req, o)

HandleCreate ==
    \E req \in PlainRequests, data \in BodyResources :
        IF data.id = ""
        THEN \E fresh \in FreshUuids(hstore) :
                SingleStep("create", req, Create(hstore, data, fresh))
        ELSE SingleStep("create", req, Create(hstore, data, ""))

HandleUpdateResource ==
    \E req \in PlainRequests, id \in Paths :
        \E data \in {d \in BodyResources : d.id = id} :
            SingleStep("update_resource", req, UpdateResource(hstore, id, data))

HandleReplaceRelationship ==
    \E req \in PlainRequests, id \in Paths, field \in RelatedFields, data \in BodyIdentifiers :
        SingleStep("replace_relationship", req,
                   OnField(ReplaceRelationship(hstore, id, field, data), field))

HandleAddRelationship ==
    \E req \in PlainRequests, id \in Paths, field \in RelatedFields, data \in BodyIdentifiers :
        SingleStep("add_relationship", req,
                   OnField(AddRelationship(hstore, id, field, data), field))

HandleRemoveRelationship ==
    \E req \in PlainRequests, id \in Paths, field \in RelatedFields, data \in BodyIdentifiers :
        SingleStep("remove_relationship", req,
                   OnField(RemoveRelationship(hstore, id, field, data), field))

HandleDeleteResource ==
    \E req \in PlainRequests, id \in Paths :
        SingleStep("delete_resource", req, DeleteResource(hstore, id))

HandleFetchCollection ==
    \E req \in QueryRequests : FetchStep("fetch_collection", req, FetchCollection(hstore))

HandleFetchSingle ==
    \E req \in QueryRequests, id \in Paths :
        FetchStep("fetch_single", req, FetchSingle(hstore, id))

HandleFetchRelationship ==
    \E req \in QueryRequests, id \in Paths, field \in RelatedFields :
        FetchStep("fetch_relationship", req,
                  Outcome(hstore, FetchRelationship(hstore, id, field)))

HandleFetchRelated ==
    \E req \in QueryRequests, id \in Paths, field \in RelatedFields :
        FetchStep("fetch_related", req, Outcome(hstore, FetchRelated(hstore, id, field)))

InitEndpoint ==
    /\ ServiceIdle
    /\ FilterIdle
    /\ EntityIdle
    /\ PageIdle
    /\ NewIdle

NextEndpoint ==
    \/ HandleCreate
    \/ HandleUpdateResource
    \/ HandleReplaceRelationship
    \/ HandleAddRelationship
    \/ HandleRemoveRelationship
    \/ HandleDeleteResource
    \/ HandleFetchCollection
    \/ HandleFetchSingle
    \/ HandleFetchRelationship
    \/ HandleFetchRelated

SpecEndpoint == InitEndpoint /\ [][NextEndpoint]_vars

(***************************************************************************)
(* Properties of the filter call.                                          *)
(***************************************************************************)
Called == pc = "done"

\* the filter holds one entry, under the entity's own type name
OwnOnly == DOMAIN filt = {Ty}

\* filter with the single expression e, on the same collection
FilterOwn(e) == Filter([k \in {Ty} |-> e], <<Ty>>, entities)

IsItem(e) == e.kind = "Item"

RECURSIVE HasAbsentLeaf(_)
HasAbsentLeaf(e) ==
    IF IsItem(e) THEN e.selector \notin AttributeNames
    ELSE HasAbsentLeaf(e.left) \/ HasAbsentLeaf(e.right)

\* C1: filter(A or B) is the set union of filter(A) and filter(B), each
\* evaluated on the same collection; when either of them is an error there
\* is no union, and filter(A or B) is an error too.
C1_OrIsUnion ==
    (Called /\ OwnOnly /\ ~ IsItem(filt[Ty]) /\ filt[Ty].op = "Or") =>
        LET a == FilterOwn(filt[Ty].left)
            b == FilterOwn(filt[Ty].right)
        IN  IF a.ok /\ b.ok
            THEN out.ok /\ Range(out.val) = Range(a.val) \cup Range(b.val)
            ELSE ~ out.ok

\* the call filtered with a single constraint s==x on an existing attribute
IsEqCall ==
    /\ Called /\ OwnOnly /\ IsItem(filt[Ty])
    /\ filt[Ty].comparison = EQUAL
    /\ Len(filt[Ty].arguments) = 1
    /\ filt[Ty].selector \in AttributeNames

\* filter(s!=x) for the s and x of the call
NotEqualResult == FilterOwn(Item(filt[Ty].selector, NOT_EQUAL, filt[Ty].arguments))

Partition(r1, r2) ==
    /\ Range(r1) \cap Range(r2) = {}
    /\ Range(r1) \cup Range(r2) = Range(entities)
    /\ Len(r1) + Len(r2) = Len(entities)

\* C2 as stated: for every existing selector s and single argument x,
\* filter(s==x) and filter(s!=x) are two collections that partition the input.
C2_Original ==
    IsEqCall => out.ok /\ NotEqualResult.ok /\ Partition(out.val, NotEqualResult.val)

\* C2 as amended: when filter(s==x) returns a collection, so does filter(s!=x)
\* and the two partition the input; when the comparison of s with x fails on
\* an element, both calls return that error.
C2_EqNePartition ==
    IsEqCall =>
        IF out.ok
        THEN NotEqualResult.ok /\ Partition(out.val, NotEqualResult.val)
        ELSE ~ NotEqualResult.ok /\ NotEqualResult.err = out.err

\* C2 witness: a call of filter(s==x) that kept some elements and dropped others
C2_Witness == IsEqCall /\ out.ok /\ out.val # <<>> /\ Len(out.val) < Len(entities)

\* C3: an expression with a leaf on an absent attribute, wherever the leaf
\* is, always gives the FieldNotExist error, whatever the collection.
C3_AbsentIsFieldNotExist ==
    (Called /\ OwnOnly /\ HasAbsentLeaf(filt[Ty])) =>
        ~ out.ok /\ out.err.kind = "FieldNotExist"

\* the attribute equals the argument, under the equality of ==
Equals(entity, selector, arg) ==
    EvalEqual(Attributes(entity)[selector], <<arg>>, selector) = OkB(TRUE)

Member(entity, selector, arguments) ==
    \E i \in 1..Len(arguments) : Equals(entity, selector, arguments[i])

\* C4: IN on an existing attribute keeps exactly the elements whose value
\* equals at least one argument, OUT exactly those equal to none.
C4_InOutMembership ==
    (/\ Called /\ OwnOnly /\ IsItem(filt[Ty])
     /\ filt[Ty].comparison \in {IN_, OUT_}
     /\ filt[Ty].selector \in AttributeNames) =>
        LET c == filt[Ty]
            want(e) == IF c.comparison = IN_
                       THEN Member(e, c.selector, c.arguments)
                       ELSE ~ Member(e, c.selector, c.arguments)
        IN  out.ok /\ out.val = SelectSeq(entities, want)

\* C8: a filter with an entry under a key other than the type name gives
\* the RsqlFilterOnRelatedNotImplemented error, for every collection.
C8_RelatedKeyIsError ==
    (Called /\ RelatedKey \in DOMAIN filt) =>
        ~ out.ok /\ out.err = RsqlFilterOnRelatedNotImplemented

\* every expression of the filter evaluates without error on every element
AllEvaluate ==
    \A i \in 1..Len(entities) : \A k \in DOMAIN filt :
        FilterElem(k, filt[k], entities[i]).ok

AllTrue(e) == \A k \in DOMAIN filt : FilterElem(k, filt[k], e).val

\* C9: Ok only when every evaluation on every element succeeds, and then
\* the result is the elements that evaluate to true; an evaluation error
\* on any element makes the call an error.
C9_AllOrNothing ==
    Called =>
        /\ out.ok => AllEvaluate /\ out.val = SelectSeq(entities, AllTrue)
        /\ ~ AllEvaluate => ~ out.ok

(***************************************************************************)
(* Properties of the generated entity code.                                *)
(***************************************************************************)
FieldNames == Range(ToOnes) \cup Range(ToManys)

IncludedCalled == human # NoHuman /\ incOut # NoCallS

\* C5: the relationships map has an entry for every to-one field, with
\* data Single(None) when the field has no target, and for every to-many
\* field, with the list of its items' identifiers (empty when it has none).
C5_EveryFieldHasEntry ==
    (human # NoHuman /\ relOut.ok) =>
        /\ \A f \in Range(ToOnes) :
            /\ f \in DOMAIN relOut.val
            /\ relOut.val[f].data = Single(ToResourceIdentifier(human[f]))
        /\ \A f \in Range(ToManys) :
            /\ f \in DOMAIN relOut.val
            /\ relOut.val[f].data =
                   Multiple([i \in 1..Len(human[f]) |-> Identifier(PetTy, human[f][i].id)])

UniqueKeys(included) == \A r, q \in included : Key(r) = Key(q) => r = q

\* the resource of the first entity included() walked that has this key
FirstWalked(targets, key) ==
    LET i == CHOOSE i \in 1..Len(targets) :
                 /\ Key(Resource(targets[i])) = key
                 /\ \A j \in 1..(i - 1) : Key(Resource(targets[j])) # key
    IN  Resource(targets[i])

C6_State ==
    /\ UniqueKeys(incOut.val)
    /\ UniqueKeys(doc.val)
    /\ (IncludedCalled /\ incOut.ok) =>
           \A r \in incOut.val :
               r = FirstWalked(Walked(human, ToOnes \o ToManys, includeQuery), Key(r))

C6_Step == (doc.ok /\ doc'.ok) => \A r \in doc.val : r \in doc'.val

\* C6: an included set (of one included() call, and of the document being
\* assembled from several primary entities) never holds two resources with
\* the same (type, id), and the resource it holds for a key is the first one
\* inserted: the first walked by included(), and in the document an entry
\* once inserted is never replaced.
C6_OnePerKeyFirstWins == [] C6_State /\ [][C6_Step]_vars

\* C6 witness: the to-one field and an item of the to-many field are
\* different entities with the same id, and included() kept the to-one's
C6_Witness ==
    /\ IncludedCalled /\ incOut.ok /\ includeQuery = None
    /\ human.favorite # None
    /\ \E i \in 1..Len(human.dogs) :
        /\ human.dogs[i].id = human.favorite[1].id
        /\ human.dogs[i] # human.favorite[1]
    /\ Resource(human.favorite[1]) \in incOut.val

\* the same across primary entities: the document holds one resource for
\* the key, and the primary entity just assembled reached another one
C6_WitnessDocument ==
    /\ human = NoHuman /\ doc.ok /\ incOut.ok
    /\ \E r \in doc.val : \E q \in incOut.val : Key(r) = Key(q) /\ r # q

\* C7: with no include query, included() returns the resources of all the
\* to-one targets and to-many items and nothing else (nothing of a related
\* entity's own relationships); with an include query, those of the fields
\* whose name is in the query and of no other field.
C7_IncludedFollowsQuery ==
    (IncludedCalled /\ incOut.ok) =>
        LET fields == IF includeQuery = None THEN FieldNames
                      ELSE {f \in FieldNames : f \in includeQuery[1]}
            targets == UNION {Range(human[f]) : f \in fields}
        IN  /\ {Key(r) : r \in incOut.val} = {Identifier(PetTy, t.id) : t \in targets}
            /\ \A r \in incOut.val : \E t \in targets : r = Resource(t)

\* C7 witness: no include query, a to-one target that has a related entity
\* of its own, and a to-many item: two resources, the mate not among them
C7_Witness ==
    /\ IncludedCalled /\ incOut.ok /\ includeQuery = None
    /\ human.favorite # None /\ human.favorite[1].mate # None
    /\ human.dogs # <<>>
    /\ Cardinality(incOut.val) = 2

\* with an include query naming one field only, the other field is left out
C7_WitnessNamed ==
    /\ IncludedCalled /\ incOut.ok /\ includeQuery = Some({"dogs", "dog"})
    /\ human.favorite # None /\ human.dogs # <<>>
    /\ Key(Resource(human.favorite[1])) \notin {Key(r) : r \in incOut.val}

(***************************************************************************)
(* Properties of sort and cursor pagination.                               *)
(***************************************************************************)
PageCalled == ppc = "done"

PositionIn(es, e) == CHOOSE i \in 1..Len(es) : es[i] = e

\* s holds the elements of coll in sorted order, ties in their order in coll
IsSortedOrder(s) ==
    /\ Len(s) = Len(coll)
    /\ Range(s) = Range(coll)
    /\ \A i, j \in 1..Len(s) : i < j =>
        LET o == CmpBy(sortQuery, s[i], s[j])
        IN  /\ o # "Greater"
            /\ o = "Equal" => PositionIn(coll, s[i]) < PositionIn(coll, s[j])

SortedOrder == CHOOSE s \in [1..Len(coll) -> Range(coll)] : IsSortedOrder(s)

\* C10: with the target in the collection, the primary data is the at most
\* limit consecutive elements right after the target in the sorted order
\* (look-after), or right before it, in sorted order and without the target;
\* the dogs of sort_and_page_test, by (name desc, age desc), after b with
\* limit 2, give [c, a].
C10_CursorPage ==
    /\ (PageCalled /\ \E i \in 1..Len(coll) : coll[i].id = pageQuery.target_id) =>
        LET s == SortedOrder
            idx == CHOOSE i \in 1..Len(s) : s[i].id = pageQuery.target_id
            after == Min(pageQuery.limit, Len(s) - idx)
            before == Min(pageQuery.limit, idx - 1)
            want == IF pageQuery.is_look_after
                    THEN [i \in 1..after |-> s[idx + i].id]
                    ELSE [i \in 1..before |-> s[idx - before + i - 1].id]
        IN  /\ pageOut.ok
            /\ pageOut.val = want
            /\ pageQuery.target_id \notin Range(pageOut.val)
    /\ (PageCalled /\ coll = QDOGS /\ sortQuery = TestSort /\ pageQuery = TestPage) =>
        pageOut = OkV(<<"c", "a">>)

\* C10 witness: the document of sort_and_page_test
C10_Witness ==
    /\ PageCalled /\ coll = QDOGS /\ sortQuery = TestSort /\ pageQuery = TestPage
    /\ pageOut = OkV(<<"c", "a">>)

\* a page before the target that the limit cuts short
C10_WitnessBefore ==
    /\ PageCalled /\ ~ pageQuery.is_look_after /\ pageQuery.limit = 1
    /\ pageOut.ok /\ Len(pageOut.val) = 1 /\ Len(coll) = 3
    /\ SortedOrder[3].id = pageQuery.target_id

(***************************************************************************)
(* Operators and arities of a leaf.                                        *)
(***************************************************************************)
\* the comparisons that take exactly one argument
OneArgument == {EQUAL, NOT_EQUAL, GREATER_THAN, GREATER_THAN_OR_EQUAL,
                LESS_THAN, LESS_THAN_OR_EQUAL}

\* the call filtered a non-empty collection with a single leaf
IsLeafCall == Called /\ OwnOnly /\ IsItem(filt[Ty]) /\ entities # <<>>

\* C12: a leaf on an existing attribute gives UnsupportedRsqlComparison,
\* carrying the operator and the number of arguments, when the operator is
\* one of the six one-argument comparisons and the arguments are not exactly
\* one, or when the operator is none of the eight known ones; IN and OUT
\* evaluate with any number of arguments; a leaf on a name that is no
\* attribute gives FieldNotExist whatever its operator and arguments.
C12_LeafOperatorArity ==
    IsLeafCall =>
        LET c == filt[Ty]
            n == Len(c.arguments)
        IN  IF c.selector \notin AttributeNames
            THEN out = ErrV(FieldNotExist(c.selector))
            ELSE IF \/ c.comparison \in OneArgument /\ n # 1
                    \/ c.comparison \notin OneArgument \cup {IN_, OUT_}
            THEN out = ErrV(UnsupportedRsqlComparison(c.comparison, n))
            ELSE /\ c.comparison \in {IN_, OUT_} => out.ok
                 /\ out.err.kind # "UnsupportedRsqlComparison"

\* IN with no argument and with two arguments are both evaluated
C12_Witness ==
    /\ IsLeafCall /\ filt[Ty].selector \in AttributeNames
    /\ filt[Ty].comparison = IN_ /\ Len(filt[Ty].arguments) = 2 /\ out.ok

\* a one-argument comparison with two arguments is refused with its count
C12_WitnessRefused ==
    /\ IsLeafCall /\ filt[Ty].selector \in AttributeNames
    /\ filt[Ty].comparison = GREATER_THAN
    /\ out = ErrV(UnsupportedRsqlComparison(GREATER_THAN, 2))

(***************************************************************************)
(* Failure of a conversion inside included().                              *)
(***************************************************************************)
\* the related entities the call walked
WalkedTargets == Walked(human, ToOnes \o ToManys, includeQuery)

\* some walked entity does not convert to a resource
SomeConversionFails ==
    \E i \in 1..Len(WalkedTargets) : ~ ToResource(WalkedTargets[i]).ok

\* C15: when the conversion of any walked related entity fails, included()
\* returns that error and no set, whatever was converted before the
\* failure; when none fails it returns a set.
C15_IncludedFailFast ==
    IncludedCalled =>
        IF SomeConversionFails
        THEN incOut = ErrS(ConversionError)
        ELSE incOut.ok

\* a call that had converted an entity before another one failed
C15_Witness ==
    /\ IncludedCalled
    /\ Len(WalkedTargets) >= 2
    /\ ToResource(WalkedTargets[1]).ok
    /\ ~ ToResource(WalkedTargets[2]).ok
    /\ incOut = ErrS(ConversionError)

(***************************************************************************)
(* Order of the operands of a composite node.                              *)
(***************************************************************************)
\* the same outcome: the same boolean, or an error on both sides
SameOutcome(x, y) == x.ok = y.ok /\ (x.ok => x.val = y.val)

Swapped(e) == Node(e.op, e.right, e.left)

\* C13: for every entity, a composite node and the node with its operands
\* exchanged evaluate to the same outcome, and when both operands evaluate
\* without error the node evaluates to their conjunction (And) or
\* disjunction (Or).
C13_OperandOrderFree ==
    (Called /\ OwnOnly /\ ~ IsItem(filt[Ty])) =>
        \A i \in 1..Len(entities) :
            LET e == filt[Ty]
                a == FilterOnAttributes(e.left, entities[i])
                b == FilterOnAttributes(e.right, entities[i])
                r == FilterOnAttributes(e, entities[i])
            IN  /\ SameOutcome(r, FilterOnAttributes(Swapped(e), entities[i]))
                /\ (a.ok /\ b.ok) =>
                      r = OkB(IF e.op = "And" THEN a.val /\ b.val ELSE a.val \/ b.val)

(***************************************************************************)
(* Properties of RsqlFilterData::new and of the order of map iteration.    *)
(***************************************************************************)
NewCalled == npc = "done"

\* the keys of the parameter map that are relationship paths
PathKeys == {k \in DOMAIN params : Contains(k, ".")}

\* C11: on a parameter map with a key that contains '.', new returns the
\* RelationshipPathNotSupported error of such a key, never Ok and never
\* another error, whatever the other entries are.
C11_PathKeyIsRefused ==
    (NewCalled /\ PathKeys # {}) =>
        \E k \in PathKeys : newOut = ErrN(RelationshipPathNotSupported(k))

\* C16: filter gives the same outcome (the same Ok collection, or an error)
\* for every order in which the keys of its map are visited.
C16_FilterOrderFree ==
    Called =>
        \A ord \in Orders(DOMAIN filt) :
            LET other == Filter(filt, ord, entities)
            IN  other.ok = out.ok /\ (out.ok => other.val = out.val)

\* C16, second half: new gives the same outcome for every order in which
\* the entries of the parameter map are visited.
C16_NewOrderFree ==
    NewCalled =>
        \A ord \in Orders(DOMAIN params) :
            LET other == New(params, ord)
            IN  other.ok = newOut.ok /\ (newOut.ok => other.val = newOut.val)

(***************************************************************************)
(* Properties of HumanService.                                             *)
(***************************************************************************)
Mutating == {"create", "update_resource", "replace_relationship",
             "add_relationship", "remove_relationship"}

\* C17: a call of create, update_resource, replace_relationship,
\* add_relationship or remove_relationship that returns an error leaves the
\* store of humans as it was before the call.
C17_ErrorLeavesStore ==
    [][(hres'.op \in Mutating /\ ~ hres'.ok) => hstore' = hstore]_vars

\* a store with a human, after a call that failed in the dog service
C17_Witness ==
    /\ DOMAIN hstore # {}
    /\ hres.op = "replace_relationship" /\ ~ hres.ok /\ hres.err = DOG_NOT_FOUND

\* a store with a human, after a create that failed on the name attribute
C17_WitnessCreate ==
    /\ DOMAIN hstore # {}
    /\ hres = SErr("create", WRONG_FIELD_TYPE)

\* the operations on a relationship of a human
OnRelationship == {"replace_relationship", "add_relationship", "remove_relationship"}

\* C18: replace_relationship, add_relationship and remove_relationship
\* called for an existing human with a field name other than "dogs" leave
\* the dogs of that human as they were, for every list of identifiers.
C18_OtherFieldLeavesDogs ==
    [][(hres'.op \in OnRelationship /\ hres'.field # "dogs") =>
          \A k \in DOMAIN hstore : hstore'[k].dogs = hstore[k].dogs]_vars

\* C19: a successful create replaces no stored human: the store holds every
\* entry it held, unchanged, and one new entry under the id of the human
\* returned (so a create with an id that denotes the Uuid of a stored human
\* does not succeed); every entry is keyed by the text of its human's id.
C19_CreateAddsOneEntry ==
    /\ [] (\A k \in DOMAIN hstore : k = UuidToString(hstore[k].id))
    /\ [][(hres'.op = "create" /\ hres'.ok) =>
            /\ UuidToString(hres'.id) \notin DOMAIN hstore
            /\ DOMAIN hstore' = DOMAIN hstore \cup {UuidToString(hres'.id)}
            /\ \A k \in DOMAIN hstore : hstore'[k] = hstore[k]]_vars

(***************************************************************************)
(* Properties of the endpoint handlers.                                    *)
(***************************************************************************)
Handlers == {"create", "update_resource", "replace_relationship", "add_relationship",
             "remove_relationship", "delete_resource", "fetch_collection",
             "fetch_single", "fetch_relationship", "fetch_related"}

ContentTypeMatches(req) == ContentTypeMustBeJsonApi(req.content_type).ok
AcceptMatches(req) == AcceptHeaderShouldBeJsonApi(req.accept).ok

\* the service was called only for a request whose two headers match
C14_State ==
    resp.invoked => ContentTypeMatches(resp.req) /\ AcceptMatches(resp.req)

\* a request with a header that does not match is answered with the error
\* of the first failing check, Content-Type before Accept, whatever its
\* query is, and the service is left as it was
C14_Step ==
    (resp'.handler \in Handlers
        /\ ~ (ContentTypeMatches(resp'.req) /\ AcceptMatches(resp'.req))) =>
            /\ resp'.err = IF ~ ContentTypeMatches(resp'.req)
                           THEN INVALID_CONTENT_TYPE ELSE INVALID_ACCEPT
            /\ ~ resp'.invoked
            /\ hstore' = hstore
            /\ hres' = hres

\* C14: in every handler the Content-Type check and then the Accept check
\* come before the query is parsed and before the service is locked or
\* called: a request failing either check gets the error response of the
\* first failing check, the operation of the service is not called and the
\* state of the service is unchanged.
C14_HeadersBeforeService == [] C14_State /\ [][C14_Step]_vars

\* a request with both headers wrong and a malformed query, refused for its
\* Content-Type by a handler whose service holds a human
C14_Witness ==
    /\ DOMAIN hstore # {}
    /\ resp.handler = "fetch_collection"
    /\ ~ ContentTypeMatches(resp.req) /\ ~ AcceptMatches(resp.req) /\ ~ resp.req.query_ok
    /\ resp.err = INVALID_CONTENT_TYPE

\* a request refused for its Accept header by a handler that would have
\* changed the service
C14_WitnessAccept ==
    /\ DOMAIN hstore # {}
    /\ resp.handler = "replace_relationship"
    /\ resp.err = INVALID_ACCEPT /\ ~ resp.invoked

====
